---------------------------- MODULE Spec2Model ----------------------------
(***************************************************************************)
(* Model of the /clean_enrich handler of replit_agent/tabular_ai_service.py *)
(* (function clean_enrich, lines 28-85) together with the pandas, requests, *)
(* re and json calls it makes.                                              *)
(*                                                                          *)
(* A request carries a batch of records and a mode.  The handler builds a   *)
(* DataFrame from the batch, then either cleans the whole frame ('tabpfn'   *)
(* and every other mode string) or, for 'huggingface', walks the frame row  *)
(* by row calling the Hugging Face inference endpoint once per row.         *)
(***************************************************************************)
EXTENDS Integers, Sequences, FiniteSets, TLC

(***************************************************************************)
(* Bounds of the model.                                                     *)
(***************************************************************************)
\* longest batch of the single-request specification
MaxRows == 2
\* longest batch of the two-request specification
MaxConcRows == 2

(***************************************************************************)
(* JSON scalars.  A value is a record of one shape so that any two values   *)
(* can be compared: k is the kind, s the characters of a string, n the      *)
(* number (1 and 0 for true and false).  NaN is the float pandas stores for *)
(* a missing cell; it is not a value a request can carry.                   *)
(***************************************************************************)
Str(chars) == [k |-> "str", s |-> chars, n |-> 0]
Num(i) == [k |-> "num", s |-> <<>>, n |-> i]
Bool(b) == [k |-> "bool", s |-> <<>>, n |-> IF b THEN 1 ELSE 0]
Null == [k |-> "null", s |-> <<>>, n |-> 0]
NaN == [k |-> "nan", s |-> <<>>, n |-> 0]

\* str.isspace for the characters of the model
IsSpace(c) == c \in {" ", "\t"}

RECURSIVE LStrip(_)
LStrip(chars) ==
    IF chars # <<>> /\ IsSpace(Head(chars)) THEN LStrip(Tail(chars)) ELSE chars

RECURSIVE RStrip(_)
RStrip(chars) ==
    IF chars # <<>> /\ IsSpace(chars[Len(chars)])
    THEN RStrip(SubSeq(chars, 1, Len(chars) - 1))
    ELSE chars

\* str.strip(): leading and trailing whitespace removed
Strip(chars) == RStrip(LStrip(chars))

(***************************************************************************)
(* pandas.  A record is a function from the field names it carries to       *)
(* values.  pd.DataFrame(list of dicts) has one column per field name of    *)
(* any record (the union), one row per record, NaN where a record lacks the *)
(* field; a column whose values are numbers and nulls is stored as float64, *)
(* which turns its nulls into NaN (the numbers keep their numeric value).   *)
(***************************************************************************)
Columns(records) == UNION {DOMAIN records[i] : i \in 1..Len(records)}

NumericColumn(records, c) ==
    /\ \E i \in 1..Len(records) :
          c \in DOMAIN records[i] /\ records[i][c].k = "num"
    /\ \A i \in 1..Len(records) :
          c \in DOMAIN records[i] => records[i][c].k \in {"num", "null"}

Cell(records, i, c) ==
    IF c \notin DOMAIN records[i] THEN NaN
    ELSE IF records[i][c].k = "null" /\ NumericColumn(records, c) THEN NaN
    ELSE records[i][c]

\* pd.DataFrame(request.records): the rows of the frame, in index order
DataFrame(records) ==
    [i \in 1..Len(records) |-> [c \in Columns(records) |-> Cell(records, i, c)]]

\* the lambda of df.applymap: x.strip() if isinstance(x, str) else x
StripCell(x) == IF x.k = "str" THEN Str(Strip(x.s)) ELSE x

\* df.applymap(f): f on every cell
ApplyMap(frame) ==
    [i \in 1..Len(frame) |-> [c \in DOMAIN frame[i] |-> StripCell(frame[i][c])]]

\* one cell of df.fillna(""): None and NaN become the empty string
FillCell(x) == IF x.k \in {"null", "nan"} THEN Str(<<>>) ELSE x

\* df.fillna("")
FillNa(frame) ==
    [i \in 1..Len(frame) |-> [c \in DOMAIN frame[i] |-> FillCell(frame[i][c])]]

(***************************************************************************)
(* df.to_dict(orient="records") builds one dict per tuple of                *)
(* df.itertuples(index=False, name=None), which zips the column arrays: a   *)
(* frame without columns has no arrays to zip and yields no tuple, so the   *)
(* result is the empty list however many rows the frame has.                *)
(***************************************************************************)
ToDictRecords(frame) ==
    IF \A i \in 1..Len(frame) : DOMAIN frame[i] = {} THEN <<>> ELSE frame

\* lines 71-73 and 75-77: strip, fill, convert
CleanFrame(frame) == ToDictRecords(FillNa(ApplyMap(frame)))

(***************************************************************************)
(* The reply of the inference endpoint to one requests.post.  The text of   *)
(* a reply is a sequence of tokens: "{" and "}" are the braces, "n" stands  *)
(* for the member "name": "al", "g" for the member "age": 31, "," is the    *)
(* comma between members and "x" is any run of other characters.            *)
(*   kind "raise":   requests.post raised (connection error, timeout)       *)
(*   kind "nonjson": a response whose body is not JSON                      *)
(*   kind "dict":    a JSON object, with "generated_text" when hasText      *)
(*   kind "list":    a JSON array whose first element is such an object     *)
(* status is the HTTP status of the response; the handler never reads it.   *)
(***************************************************************************)
Reply(kind, status, hasText, text, msg) ==
    [kind |-> kind, status |-> status, hasText |-> hasText, text |-> text,
     msg |-> msg]

\* positions of a token in a text
Positions(text, tok) == {i \in 1..Len(text) : text[i] = tok}

Min(S) == CHOOSE i \in S : \A j \in S : i <= j
Max(S) == CHOOSE i \in S : \A j \in S : i >= j

(***************************************************************************)
(* re.search(r'\{.*\}', text, re.DOTALL): the leftmost "{" that has a "}"   *)
(* after it, and, .* being greedy, everything up to the last "}".           *)
(***************************************************************************)
ReSearch(text) ==
    LET opens == Positions(text, "{")
        closes == Positions(text, "}")
    IN IF opens # {} /\ closes # {} /\ Min(opens) < Max(closes)
       THEN [found |-> TRUE, group |-> SubSeq(text, Min(opens), Max(closes))]
       ELSE [found |-> FALSE, group |-> <<>>]

\* the key and the value a member token stands for
MemberKey(tok) == IF tok = "n" THEN "name" ELSE "age"
MemberValue(tok) == IF tok = "n" THEN Str(<<"a", "l">>) ELSE Num(31)

(***************************************************************************)
(* json.loads of a text that starts with "{" and ends with "}": it parses   *)
(* when what lies between the two is a comma-separated list of members      *)
(* (possibly none); a key met twice keeps its last value, which for the     *)
(* two member tokens is the same value.  Anything else raises.              *)
(***************************************************************************)
JsonLoads(text) ==
    LET body == SubSeq(text, 2, Len(text) - 1)
        wellFormed ==
            \/ body = <<>>
            \/ /\ Len(body) % 2 = 1
               /\ \A i \in 1..Len(body) :
                     IF i % 2 = 1 THEN body[i] \in {"n", "g"} ELSE body[i] = ","
        members == {body[i] : i \in {j \in 1..Len(body) : j % 2 = 1}}
    IN IF wellFormed
       THEN [ok |-> TRUE,
             value |-> [key \in {MemberKey(m) : m \in members} |->
                          MemberValue(CHOOSE m \in members : MemberKey(m) = key)]]
       ELSE [ok |-> FALSE, value |-> <<>>]

(***************************************************************************)
(* One iteration of the loop of lines 41-68 for a row and the reply to its  *)
(* call: what is appended to cleaned_records, whether the except clause of  *)
(* line 66 ran (and with which message), and whether line 59 was reached.   *)
(***************************************************************************)
Appended(value, parsed) ==
    [raised |-> FALSE, msg |-> "", append |-> value, parsed |-> parsed]
Raised(row, msg) ==
    [raised |-> TRUE, msg |-> msg, append |-> row, parsed |-> FALSE]

\* line 51, for a result that is a JSON object: result.get("generated_text")
\* or None; the empty text is falsy
GeneratedText(result) ==
    IF result.hasText /\ result.text # <<>>
    THEN [some |-> TRUE, text |-> result.text]
    ELSE [some |-> FALSE, text |-> <<>>]

RowOutcome(row, reply) ==
    IF reply.kind = "raise" THEN Raised(row, reply.msg)                \* 44
    ELSE IF reply.kind = "nonjson" THEN Raised(row, "JSONDecodeError") \* 49
    ELSE IF reply.kind = "list"         \* 51: a list has no method get
    THEN Raised(row, "AttributeError: 'list' object has no attribute 'get'")
    ELSE LET text == GeneratedText(reply)
         IN IF text.some                                               \* 52
            THEN LET match == ReSearch(text.text)                      \* 55
                 IN IF match.found                                     \* 56
                    THEN LET cleaned == JsonLoads(match.group)         \* 58
                         IN IF cleaned.ok
                            THEN Appended(cleaned.value, TRUE)         \* 59
                            ELSE Appended(row, FALSE)                  \* 61
                    ELSE Appended(row, FALSE)                          \* 63
            ELSE Appended(row, FALSE)                                  \* 65

(***************************************************************************)
(* Inputs of the model.                                                     *)
(***************************************************************************)
Fields == {"name", "age"}

\* the values a field takes in the batches of the model
FieldValues(f) ==
    IF f = "name" THEN {Str(<<" ", "a", " ", "l", "\t">>)} ELSE {Num(30), Bool(TRUE), Null}

AllFieldValues == UNION {FieldValues(f) : f \in Fields}

\* every record over a subset of the fields: the field sets of a batch differ
RecordSet ==
    UNION {{rec \in [S -> AllFieldValues] : \A f \in S : rec[f] \in FieldValues(f)} :
           S \in SUBSET Fields}

Batches(n) == UNION {[1..k -> RecordSet] : k \in 0..n}

\* the records of the two-request specification
ConcRecordSet == {rec \in RecordSet : DOMAIN rec = {"name"} \/ rec = <<>>}
ConcBatches(n) == UNION {[1..k -> ConcRecordSet] : k \in 0..n}

\* the body of a request without the key "mode", and with "mode": null
ABSENT == "<absent>"
NONE == "<null>"

\* the modes a request of the model carries; "statistical" and "generative"
\* are not names the handler knows
ModeSet == {ABSENT, NONE, "", "basic", "tabpfn", "huggingface", "statistical"}
ConcModeSet == {"basic", "tabpfn", "huggingface"}

\* os.getenv('HUGGINGFACE_API_KEY'): unset, set to the empty string, or set
UNSET == "<unset>"
KeySet == {UNSET, "", "hf_key"}

ReplySet ==
    { Reply("raise", 0, FALSE, <<>>, "Read timed out"),
      Reply("nonjson", 503, FALSE, <<>>, ""),
      Reply("dict", 503, FALSE, <<>>, ""),
      Reply("dict", 200, TRUE, <<"x">>, ""),
      Reply("dict", 200, TRUE, <<"{", "x", "}">>, ""),
      Reply("dict", 200, TRUE, <<"x", "{", "n", "}", "x">>, ""),
      Reply("dict", 200, TRUE, <<"{", "g", "}">>, ""),
      Reply("list", 200, TRUE, <<"{", "n", "}">>, "") }

ConcReplySet ==
    { Reply("raise", 0, FALSE, <<>>, "Read timed out"),
      Reply("dict", 200, TRUE, <<"x">>, ""),
      Reply("dict", 200, TRUE, <<"{", "g", "}">>, "") }

(***************************************************************************)
(* State.  Reqs are the requests the server handles; every local of         *)
(* clean_enrich is a function of the request.  The two lists the loop       *)
(* appends to live in the activation of the call that created them          *)
(* (lines 33 and 36).                                                       *)
(***************************************************************************)
Reqs == {1, 2}

VARIABLES
    HUGGINGFACE_API_KEY, \* line 25, read once when the module is imported
    pc,                  \* "idle", "sent", "running" or "done", per request
    request,             \* the body of the request: records and mode
    df,                  \* line 30
    mode,                \* line 31
    used_ai,             \* line 32
    error_rows,          \* line 33, per activation
    cleaned_records,     \* line 36, per activation
    idx,                 \* rows of df the loop of line 41 has consumed
    replies,             \* the endpoint's reply to each row's call, in order
    calls,               \* requests.post calls made for each row
    rowState,            \* "Pending", "Success" or "Fallback", per row
    response             \* what clean_enrich returned

vars == <<HUGGINGFACE_API_KEY, pc, request, df, mode, used_ai, error_rows,
          cleaned_records, idx, replies, calls, rowState, response>>

\* nothing returned yet
NoResponse == [returned |-> FALSE]

\* faulty variant: the lists are module-level, one activation for every call
FrameShared(r) == 1
\* the activation holding the locals of request r: each call has its own
Frame(r) == r

\* line 23: the default of the field when the body has no "mode"
RecordsRequestMode(m) == IF m = ABSENT THEN "tabpfn" ELSE m

\* faulty variant: a mode that is not a known name is replaced by the default
EffectiveModeNormalised(m) ==
    IF m \in {"basic", "tabpfn", "huggingface"} THEN m ELSE "tabpfn"
\* line 31: request.mode or 'tabpfn' (None and the empty string are falsy)
EffectiveMode(m) == IF m = NONE \/ m = "" THEN "tabpfn" ELSE m

\* faulty variant: the key is never found missing
KeyCheckSkipped(k) == FALSE
\* line 39: not HUGGINGFACE_API_KEY
KeyMissing(k) == k = UNSET \/ k = ""

\* faulty variant: a row that was not enriched is tried again
NextIdxRetry(i, out) == IF out.parsed THEN i + 1 ELSE i
\* line 41: the for loop moves to the next row whatever the outcome
NextIdx(i, out) == i + 1

\* lines 79-85
Envelope(r) ==
    [data |-> cleaned_records[Frame(r)], errorRows |-> error_rows[Frame(r)],
     enhancementStats |-> <<>>, duplicateWarnings |-> <<>>,
     usedAI |-> used_ai[r]]

\* line 40
KeyErrorEnvelope(r) ==
    [error |-> "No Hugging Face API key set in environment.", data |-> <<>>,
     usedAI |-> used_ai[r]]

\* the bodies the clients send, one per request that is made
Bodies(batches, modes) == [records : batches, mode : modes]
NoBody == [records |-> <<>>, mode |-> ABSENT]

\* the server has imported the module; the requests in made are on their way
InitWith(made, batches, modes) ==
    /\ HUGGINGFACE_API_KEY \in KeySet
    /\ pc = [r \in Reqs |-> IF r \in made THEN "sent" ELSE "idle"]
    /\ request \in {[r \in Reqs |-> IF r \in made THEN body[r] ELSE NoBody] :
                       body \in [made -> Bodies(batches, modes)]}
    /\ df = [r \in Reqs |-> <<>>]
    /\ mode = [r \in Reqs |-> ""]
    /\ used_ai = [r \in Reqs |-> ""]
    /\ error_rows = [f \in Reqs |-> <<>>]
    /\ cleaned_records = [f \in Reqs |-> <<>>]
    /\ idx = [r \in Reqs |-> 0]
    /\ replies = [r \in Reqs |-> <<>>]
    /\ calls = [r \in Reqs |-> <<>>]
    /\ rowState = [r \in Reqs |-> <<>>]
    /\ response = [r \in Reqs |-> NoResponse]

\* one request
Init == InitWith({1}, Batches(MaxRows), ModeSet)

\* two requests
InitConc == InitWith(Reqs, ConcBatches(MaxConcRows), ConcModeSet)

\* lines 29-36: the body is parsed and the locals are created
Receive(r) ==
    /\ pc[r] = "sent"
    /\ LET records == request[r].records
           m == request[r].mode
       IN /\ df' = [df EXCEPT ![r] = DataFrame(records)]
          /\ mode' = [mode EXCEPT ![r] = EffectiveMode(RecordsRequestMode(m))]
          /\ used_ai' = [used_ai EXCEPT ![r] = EffectiveMode(RecordsRequestMode(m))]
          /\ calls' = [calls EXCEPT ![r] = [i \in 1..Len(records) |-> 0]]
          /\ rowState' = [rowState EXCEPT ![r] = [i \in 1..Len(records) |-> "Pending"]]
    /\ error_rows' = [error_rows EXCEPT ![Frame(r)] = <<>>]
    /\ cleaned_records' = [cleaned_records EXCEPT ![Frame(r)] = <<>>]
    /\ idx' = [idx EXCEPT ![r] = 0]
    /\ replies' = [replies EXCEPT ![r] = <<>>]
    /\ pc' = [pc EXCEPT ![r] = "running"]
    /\ UNCHANGED <<HUGGINGFACE_API_KEY, request, response>>

\* lines 38-40: 'huggingface' without a key returns at once
NoKey(r) ==
    /\ pc[r] = "running"
    /\ mode[r] = "huggingface"
    /\ KeyMissing(HUGGINGFACE_API_KEY)
    /\ response' = [response EXCEPT ![r] = KeyErrorEnvelope(r)]
    /\ pc' = [pc EXCEPT ![r] = "done"]
    /\ UNCHANGED <<HUGGINGFACE_API_KEY, request, df, mode, used_ai, error_rows,
                   cleaned_records, idx, replies, calls, rowState>>

\* lines 41-68: one iteration, for the next row of the frame; the prompt of
\* line 42 goes to the endpoint, whose reply is any of replySet
RowStep(r, replySet) ==
    /\ pc[r] = "running"
    /\ mode[r] = "huggingface"
    /\ ~KeyMissing(HUGGINGFACE_API_KEY)
    /\ idx[r] < Len(df[r])
    /\ \E reply \in replySet :
          LET i == idx[r] + 1
              row == df[r][i]
              out == RowOutcome(row, reply)
          IN /\ replies' = [replies EXCEPT ![r] = Append(@, reply)]
             /\ calls' = [calls EXCEPT ![r][i] = @ + 1]
             /\ cleaned_records' =
                   [cleaned_records EXCEPT ![Frame(r)] = Append(@, out.append)]
             /\ error_rows' =
                   IF out.raised
                   THEN [error_rows EXCEPT ![Frame(r)] =
                           Append(@, [rowIndex |-> idx[r] + 1, data |-> row,
                                      error |-> out.msg])]
                   ELSE error_rows
             /\ rowState' = [rowState EXCEPT ![r][i] =
                               IF out.parsed THEN "Success" ELSE "Fallback"]
             /\ idx' = [idx EXCEPT ![r] = NextIdx(@, out)]
    /\ UNCHANGED <<HUGGINGFACE_API_KEY, pc, request, df, mode, used_ai, response>>

\* lines 79-85 after the loop has consumed every row
ReturnEnriched(r) ==
    /\ pc[r] = "running"
    /\ mode[r] = "huggingface"
    /\ ~KeyMissing(HUGGINGFACE_API_KEY)
    /\ idx[r] = Len(df[r])
    /\ response' = [response EXCEPT ![r] = Envelope(r)]
    /\ pc' = [pc EXCEPT ![r] = "done"]
    /\ UNCHANGED <<HUGGINGFACE_API_KEY, request, df, mode, used_ai, error_rows,
                   cleaned_records, idx, replies, calls, rowState>>

\* the cleaning of lines 71-73 and of lines 75-77, then lines 79-85
CleanAndReturn(r) ==
    LET cleaned == CleanFrame(df[r])
    IN /\ df' = [df EXCEPT ![r] = FillNa(ApplyMap(@))]
       /\ cleaned_records' = [cleaned_records EXCEPT ![Frame(r)] = cleaned]
       /\ response' = [response EXCEPT ![r] =
             [data |-> cleaned, errorRows |-> error_rows[Frame(r)],
              enhancementStats |-> <<>>, duplicateWarnings |-> <<>>,
              usedAI |-> used_ai[r]]]
       /\ pc' = [pc EXCEPT ![r] = "done"]
       /\ UNCHANGED <<HUGGINGFACE_API_KEY, request, mode, used_ai, error_rows,
                      idx, replies, calls, rowState>>

\* lines 69-73: mode 'tabpfn'
CleanTabpfn(r) ==
    /\ pc[r] = "running"
    /\ mode[r] = "tabpfn"
    /\ CleanAndReturn(r)

\* lines 74-77: every other mode
CleanBasic(r) ==
    /\ pc[r] = "running"
    /\ mode[r] \notin {"huggingface", "tabpfn"}
    /\ CleanAndReturn(r)

\* one request at a time
Next ==
    \/ Receive(1)
    \/ NoKey(1)
    \/ RowStep(1, ReplySet)
    \/ ReturnEnriched(1)
    \/ CleanTabpfn(1)
    \/ CleanBasic(1)

Spec == Init /\ [][Next]_vars

\* two requests handled concurrently, their steps interleaved
NextConc ==
    \E r \in Reqs :
        \/ Receive(r)
        \/ NoKey(r)
        \/ RowStep(r, ConcReplySet)
        \/ ReturnEnriched(r)
        \/ CleanTabpfn(r)
        \/ CleanBasic(r)

SpecConc == InitConc /\ [][NextConc]_vars

(***************************************************************************)
(* Properties.  They speak of request 1 under Spec and of both requests     *)
(* under SpecConc.                                                          *)
(***************************************************************************)
Records(r) == request[r].records
Done(r) == pc[r] = "done"
KeyPresent == HUGGINGFACE_API_KEY \notin {UNSET, ""}
\* a request in generative mode that ran to its end with a key configured
Enriched(r) == Done(r) /\ request[r].mode = "huggingface" /\ KeyPresent
Rows(r) == 1..Len(Records(r))

\* t is s without its leading and trailing whitespace
StrippedOf(s, t) ==
    /\ \E a \in 1..(Len(s) + 1), b \in 0..Len(s) :
          /\ t = SubSeq(s, a, b)
          /\ \A i \in 1..Len(s) : (i < a \/ i > b) => s[i] \in {" ", "\t"}
    /\ t # <<>> => t[1] \notin {" ", "\t"} /\ t[Len(t)] \notin {" ", "\t"}

\* what the contract of the cleaning modes asks of the cell of field f in
\* the output row made from record rec
CleanCellOk(rec, f, out) ==
    IF f \notin DOMAIN rec \/ rec[f].k = "null" THEN out = Str(<<>>)
    ELSE IF rec[f].k = "str" THEN out.k = "str" /\ StrippedOf(rec[f].s, out.s)
    ELSE out = rec[f]

CleanRowsOk(r) ==
    \A i \in Rows(r) :
        /\ DOMAIN response[r].data[i] = Columns(Records(r))
        /\ \A f \in Columns(Records(r)) :
              CleanCellOk(Records(r)[i], f, response[r].data[i][f])

(* C1: in 'basic' or 'tabpfn' mode the envelope has as many data rows as    *)
(* the batch has records, no error rows, the rows in input order, every     *)
(* string stripped, every null or missing field "", every other value       *)
(* unchanged.                                                               *)
C1_CleanContract ==
    (Done(1) /\ request[1].mode \in {"basic", "tabpfn"}) =>
        /\ response[1].errorRows = <<>>
        /\ Len(response[1].data) = Len(Records(1))
        /\ CleanRowsOk(1)

\* the same for the batches in which some record carries a field
CleanContractOfBatchesWithAField ==
    (Done(1) /\ request[1].mode \in {"basic", "tabpfn"}
        /\ Columns(Records(1)) # {}) =>
        /\ response[1].errorRows = <<>>
        /\ Len(response[1].data) = Len(Records(1))
        /\ CleanRowsOk(1)

\* a cleaned batch with a padded, a stripped and a filled cell
CleanWitness ==
    /\ Done(1) /\ request[1].mode = "basic" /\ Len(Records(1)) = 2
    /\ DOMAIN Records(1)[1] = {"name"} /\ Records(1)[2] = [age |-> Null]
    /\ response[1].data[1] = [name |-> Str(<<"a", " ", "l">>), age |-> Str(<<>>)]

\* the error rows of request r that carry row index i
ErrorsOf(r, i) ==
    {j \in 1..Len(response[r].errorRows) : response[r].errorRows[j].rowIndex = i}

(* C2: in generative mode with a key, every row that ends in Fallback, for  *)
(* whatever cause, has an error row with its 1-based index and its original *)
(* record, and its original record in data.                                 *)
C2_FallbackRecorded ==
    Enriched(1) =>
        \A i \in Rows(1) :
            rowState[1][i] = "Fallback" =>
                /\ \E j \in ErrorsOf(1, i) :
                      response[1].errorRows[j].data = Records(1)[i]
                /\ response[1].data[i] = Records(1)[i]

(* C3: in generative mode without a key, whatever the batch, no row is      *)
(* processed and no call is made, and the response has data == [], a        *)
(* populated error, usedAI equal to the mode received and no errorRows.     *)
C3_NoKeyShortCircuit ==
    (pc[1] \in {"running", "done"} /\ request[1].mode = "huggingface"
        /\ HUGGINGFACE_API_KEY \in {UNSET, ""}) =>
        /\ idx[1] = 0
        /\ \A i \in Rows(1) : calls[1][i] = 0 /\ rowState[1][i] = "Pending"
        /\ Done(1) =>
              /\ response[1].data = <<>>
              /\ "error" \in DOMAIN response[1] /\ response[1].error # ""
              /\ response[1].usedAI = request[1].mode
              /\ "errorRows" \notin DOMAIN response[1]

C3_Witness ==
    /\ Done(1) /\ request[1].mode = "huggingface"
    /\ HUGGINGFACE_API_KEY = UNSET
    /\ Len(Records(1)) >= 2
    /\ "error" \in DOMAIN response[1]

\* the reply to row i of request r carried an object the handler parsed
ParsedFrom(r, i) == RowOutcome(df[r][i], replies[r][i])

(* C4: in generative mode with a key, data has one element per record, in   *)
(* input order: the object parsed from the row's reply or the original      *)
(* record.                                                                  *)
C4_OneOutputPerRow ==
    Enriched(1) =>
        /\ Len(response[1].data) = Len(Records(1))
        /\ \A i \in Rows(1) :
              \/ response[1].data[i] = Records(1)[i]
              \/ /\ ParsedFrom(1, i).parsed
                 /\ response[1].data[i] = ParsedFrom(1, i).append

\* the same with the row of the frame in place of the original record
OneOutputPerFrameRow ==
    Enriched(1) =>
        /\ Len(response[1].data) = Len(Records(1))
        /\ \A i \in Rows(1) :
              \/ response[1].data[i] = DataFrame(Records(1))[i]
              \/ /\ ParsedFrom(1, i).parsed
                 /\ response[1].data[i] = ParsedFrom(1, i).append

\* the reply carries generated text in which a brace-delimited object parses
HasParseableText(reply) ==
    /\ reply.kind \in {"dict", "list"} /\ reply.hasText
    /\ ReSearch(reply.text).found
    /\ JsonLoads(ReSearch(reply.text).group).ok

\* the object that text holds
ObjectOf(reply) == JsonLoads(ReSearch(reply.text).group).value

(* C5: a reply that is a list whose first element has generated text        *)
(* holding a parseable object ends the row in Success, with the parsed      *)
(* object in data and no error row, as a single-object reply does.          *)
C5_ListShapeAccepted ==
    Enriched(1) =>
        \A i \in Rows(1) :
            (replies[1][i].kind = "list" /\ HasParseableText(replies[1][i])) =>
                /\ rowState[1][i] = "Success"
                /\ response[1].data[i] = ObjectOf(replies[1][i])
                /\ ErrorsOf(1, i) = {}

\* the same for the replies that are a single object
SingleObjectShapeAccepted ==
    Enriched(1) =>
        \A i \in Rows(1) :
            (replies[1][i].kind = "dict" /\ HasParseableText(replies[1][i])) =>
                /\ rowState[1][i] = "Success"
                /\ response[1].data[i] = ObjectOf(replies[1][i])
                /\ ErrorsOf(1, i) = {}

(* C6: in generative mode with a key, when every row's reply carries text   *)
(* with a parseable object, data holds the parsed objects, one per record   *)
(* and in input order, and errorRows is empty.                              *)
C6_AllRowsSucceed ==
    (Enriched(1) /\ \A i \in Rows(1) : HasParseableText(replies[1][i])) =>
        /\ Len(response[1].data) = Len(Records(1))
        /\ response[1].errorRows = <<>>
        /\ \A i \in Rows(1) : response[1].data[i] = ObjectOf(replies[1][i])

\* the same when every reply is a single object
AllRowsSucceedOnSingleObjects ==
    (Enriched(1) /\ \A i \in Rows(1) :
        replies[1][i].kind = "dict" /\ HasParseableText(replies[1][i])) =>
        /\ Len(response[1].data) = Len(Records(1))
        /\ response[1].errorRows = <<>>
        /\ \A i \in Rows(1) : response[1].data[i] = ObjectOf(replies[1][i])

\* a request whose mode is not 'huggingface' is answered as the cleaning
\* modes answer it: the cleaned batch, no error rows, no error field
HandledAsCleaning(r) ==
    /\ "error" \notin DOMAIN response[r]
    /\ response[r].errorRows = <<>>
    /\ response[r].data = CleanFrame(DataFrame(Records(r)))

(* C7 as stated: usedAI is the mode string received, verbatim, for every    *)
(* string including the empty one; an absent mode is handled as             *)
(* statistical; an unrecognized string is no error and gives the data and   *)
(* errorRows of statistical/basic mode.                                     *)
C7_ModeEchoedVerbatim ==
    Done(1) =>
        /\ request[1].mode \notin {ABSENT, NONE} =>
              response[1].usedAI = request[1].mode
        /\ request[1].mode # "huggingface" => HandledAsCleaning(1)

(* C7 amended: usedAI is the mode string received, verbatim, for every      *)
(* non-empty string; a mode that is absent, null or the empty string is     *)
(* handled as statistical and reported as 'tabpfn'; a string that is not    *)
(* 'huggingface' is no error and gives the data and errorRows of            *)
(* statistical/basic mode.                                                  *)
C7_ModeEchoedUnlessEmpty ==
    Done(1) =>
        /\ request[1].mode \notin {ABSENT, NONE, ""} =>
              response[1].usedAI = request[1].mode
        /\ request[1].mode \in {ABSENT, NONE, ""} =>
              response[1].usedAI = "tabpfn"
        /\ request[1].mode # "huggingface" => HandledAsCleaning(1)

C7_Witness ==
    /\ Done(1) /\ request[1].mode = "statistical"
    /\ response[1].usedAI = "statistical"
    /\ Len(response[1].data) = 2 /\ Columns(Records(1)) = Fields

\* the rows of request r that ended in Fallback
Failed(r) == {i \in Rows(r) : rowState[r][i] = "Fallback"}

(* C8: in generative mode a failing row never aborts the batch: data has    *)
(* one element per record, the rows that did not fail carry their parsed    *)
(* objects, and errorRows has exactly one entry per failed row and none for *)
(* the others, in ascending rowIndex, each with the data of its row in      *)
(* data.                                                                    *)
C8_FailuresIsolated ==
    Enriched(1) =>
        LET errs == response[1].errorRows
        IN /\ Len(response[1].data) = Len(Records(1))
           /\ \A i \in Rows(1) \ Failed(1) :
                 response[1].data[i] = ObjectOf(replies[1][i])
           /\ \A i \in Rows(1) :
                 Cardinality(ErrorsOf(1, i)) = IF i \in Failed(1) THEN 1 ELSE 0
           /\ \A j \in 1..Len(errs) :
                 /\ errs[j].rowIndex \in Rows(1)
                 /\ errs[j].data = response[1].data[errs[j].rowIndex]
                 /\ j > 1 => errs[j - 1].rowIndex < errs[j].rowIndex

\* the same, the failed rows being those whose call or whose response.json()
\* or result.get raised
RaisedRowsIsolated ==
    Enriched(1) =>
        LET errs == response[1].errorRows
            raisedRows == {i \in Rows(1) : ParsedFrom(1, i).raised}
        IN /\ Len(response[1].data) = Len(Records(1))
           /\ \A i \in Rows(1) \ Failed(1) :
                 response[1].data[i] = ObjectOf(replies[1][i])
           /\ \A i \in Rows(1) :
                 Cardinality(ErrorsOf(1, i)) = IF i \in raisedRows THEN 1 ELSE 0
           /\ \A j \in 1..Len(errs) :
                 /\ errs[j].rowIndex \in Rows(1)
                 /\ errs[j].data = response[1].data[errs[j].rowIndex]
                 /\ j > 1 => errs[j - 1].rowIndex < errs[j].rowIndex

\* the data and the error rows of a batch enriched on its own: the first n
\* rows of the frame against the first n replies
RECURSIVE AloneData(_, _, _)
AloneData(frame, reps, n) ==
    IF n = 0 THEN <<>>
    ELSE Append(AloneData(frame, reps, n - 1),
                RowOutcome(frame[n], reps[n]).append)

RECURSIVE AloneErrors(_, _, _)
AloneErrors(frame, reps, n) ==
    IF n = 0 THEN <<>>
    ELSE LET out == RowOutcome(frame[n], reps[n])
             before == AloneErrors(frame, reps, n - 1)
         IN IF out.raised
            THEN Append(before, [rowIndex |-> n, data |-> frame[n],
                                 error |-> out.msg])
            ELSE before

\* the envelope of a request handled alone: a function of its batch, its
\* mode, the key and the replies to its own rows
Alone(body, key, reps) ==
    LET m == IF body.mode \in {ABSENT, NONE, ""} THEN "tabpfn" ELSE body.mode
        frame == DataFrame(body.records)
    IN IF m = "huggingface" /\ key \in {UNSET, ""}
       THEN [error |-> "No Hugging Face API key set in environment.",
             data |-> <<>>, usedAI |-> m]
       ELSE [data |-> IF m = "huggingface"
                      THEN AloneData(frame, reps, Len(frame))
                      ELSE CleanFrame(frame),
             errorRows |-> IF m = "huggingface"
                           THEN AloneErrors(frame, reps, Len(frame))
                           ELSE <<>>,
             enhancementStats |-> <<>>, duplicateWarnings |-> <<>>,
             usedAI |-> m]

(* C9: under any interleaving of two requests, the envelope of each is the  *)
(* one it would get if handled alone, a function of its own batch, mode and *)
(* replies (and the key); two requests in a cleaning mode with the same     *)
(* body get the same envelope.                                              *)
C9_RequestsIndependent ==
    /\ \A r \in Reqs :
          Done(r) => response[r] = Alone(request[r], HUGGINGFACE_API_KEY,
                                         replies[r])
    /\ \A r1, r2 \in Reqs :
          (Done(r1) /\ Done(r2) /\ request[r1] = request[r2]
              /\ request[r1].mode # "huggingface") =>
              response[r1] = response[r2]

\* both requests enriched two rows each, with different outcomes
C9_Witness ==
    /\ Enriched(1) /\ Enriched(2)
    /\ Len(Records(1)) = 2 /\ Len(Records(2)) = 2
    /\ Len(response[1].errorRows) = 2
    /\ response[2].errorRows = <<>>
    /\ rowState[2] = <<"Success", "Fallback">>

\* what a step may do to the rows of request r
RowsStep(r) ==
    \A i \in DOMAIN rowState[r] \cap DOMAIN rowState'[r] :
        \* Success and Fallback are final
        /\ rowState[r][i] # "Pending" => rowState'[r][i] = rowState[r][i]
        \* a row leaves Pending alone, after every row before it
        /\ (rowState[r][i] = "Pending" /\ rowState'[r][i] # "Pending") =>
              /\ rowState'[r][i] \in {"Success", "Fallback"}
              /\ \A j \in DOMAIN rowState[r] :
                    /\ j < i => rowState[r][j] # "Pending"
                    /\ j # i => rowState'[r][j] = rowState[r][j]
              \* and its call is the one call of the row
              /\ calls[r][i] = 0 /\ calls'[r][i] = 1
        \* a call is made only for a row that leaves Pending
        /\ calls'[r][i] # calls[r][i] =>
              rowState[r][i] = "Pending" /\ rowState'[r][i] # "Pending"
        /\ calls'[r][i] <= 1

(* C10: in generative mode with a key each row goes Pending -> Success or   *)
(* Fallback: rows leave Pending one at a time in input order, the endpoint  *)
(* is called at most once per row, Success and Fallback are final, and no   *)
(* row is Pending once the request has completed.                           *)
C10_RowStateMachine ==
    [][ /\ RowsStep(1)
        /\ (pc'[1] = "done" /\ request[1].mode = "huggingface" /\ KeyPresent) =>
              \A i \in DOMAIN rowState'[1] :
                  rowState'[1][i] # "Pending" /\ calls'[1][i] = 1 ]_vars

C10_Witness ==
    /\ Enriched(1)
    /\ rowState[1] = <<"Fallback", "Success">>
    /\ calls[1] = <<1, 1>>

=============================================================================
